---- MODULE Spec2Model ----
(***************************************************************************)
(* Model of vector_encoding.py: the encoding of a rooted bifurcating tree  *)
(* on n named leaves as an integer vector of length n-1 (to_vector), its   *)
(* inverse (to_tree), the enumerators of vectors and of tree shapes and    *)
(* the Hamming-1 neighbourhood operations.                                 *)
(*                                                                         *)
(* Python lists are 0-indexed, TLA+ sequences 1-indexed: the Python entry  *)
(* vector[i] is vector[i + 1] here.  A string is the sequence of its       *)
(* character codes, so that Python's string order is the lexicographic     *)
(* order of sequences.  An ete3 tree is an arena: a sequence of node       *)
(* records addressed by their index, with `up` (0 for None) and the        *)
(* ordered list `children`; a node attribute that was never assigned is    *)
(* the empty sequence.                                                     *)
(***************************************************************************)
EXTENDS Integers, Sequences, FiniteSets, TLC

VARIABLES
    pc,          \* the call in progress ("idle" between two calls)
    arg,         \* the arguments of the call
    frame,       \* the local variables of a suspended generator or of a loop
    ret          \* what the call returned or has yielded so far

vars == <<pc, arg, frame, ret>>

(***************************************************************************)
(* Bounds of the model.                                                    *)
(***************************************************************************)
\* the most leaves of the tree of a vector argument
MaxLeaves == 5

\* the most leaves of a tree argument
MaxTreeLeaves == 4

\* the most leaves of the tree shapes enumerated
MaxShapeLeaves == 6

\* the most leaves of the trees of the two vectors of a distance
MaxDistLeaves == 4

\* the most leaves of a tree decoded under names of any number
MaxNamedLeaves == 3

(***************************************************************************)
(* Python built-ins.                                                       *)
(***************************************************************************)
Range(s) == {s[k] : k \in DOMAIN s}

abs(x) == IF x < 0 THEN -x ELSE x

min(s) == CHOOSE x \in Range(s) : \A y \in Range(s) : x <= y

max(s) == CHOOSE x \in Range(s) : \A y \in Range(s) : x >= y

\* str < str: the first differing character decides, a proper prefix is smaller
StrLess(a, b) ==
    \E k \in 1..(Len(a) + 1) :
        /\ k <= Len(b)
        /\ \A m \in 1..(k - 1) : a[m] = b[m]
        /\ (k = Len(a) + 1 \/ a[k] < b[k])

RECURSIVE digits(_)
digits(k) == IF k < 10 THEN <<48 + k>> ELSE digits(k \div 10) \o <<48 + (k % 10)>>

\* str(k) of an int
str(k) == IF k < 0 THEN <<45>> \o digits(-k) ELSE digits(k)

RECURSIVE parse_digits(_, _)
parse_digits(s, acc) ==
    IF s = <<>> THEN acc ELSE parse_digits(Tail(s), 10 * acc + (Head(s) - 48))

\* int(s) of a decimal string
int(s) == IF Head(s) = 45 THEN -parse_digits(Tail(s), 0) ELSE parse_digits(s, 0)

RECURSIVE insort(_, _)
insort(s, x) ==
    IF s = <<>> THEN <<x>>
    ELSE IF StrLess(x, Head(s)) THEN <<x>> \o s
    ELSE <<Head(s)>> \o insort(Tail(s), x)

\* faulty variant: the names are ranked in the order they are met, sorted() forgotten
not_sorted(s) == s

RECURSIVE sorted(_)
\* sorted(s), by insertion
sorted(s) == IF s = <<>> THEN <<>> ELSE insort(sorted(SubSeq(s, 1, Len(s) - 1)), s[Len(s)])

\* list.remove(x): drops the first occurrence
RECURSIVE remove(_, _)
remove(s, x) ==
    IF s = <<>> THEN <<>>
    ELSE IF Head(s) = x THEN Tail(s)
    ELSE <<Head(s)>> \o remove(Tail(s), x)

reverse(s) == [k \in 1..Len(s) |-> s[Len(s) + 1 - k]]

(***************************************************************************)
(* ete3.Tree, as far as vector_encoding.py uses it.                        *)
(***************************************************************************)
\* Tree(): a fresh node without parent, children or attributes
TreeNode(nm) ==
    [up |-> 0, children |-> <<>>, name |-> nm,
     parent_edge_label |-> <<>>, min_label_below |-> <<>>]

is_leaf(T, node) == T[node].children = <<>>

is_root(T, node) == T[node].up = 0

\* parent.add_child(child): appended to the parent's list, the child's `up`
\* is set; the child is NOT taken out of the list of its former parent
add_child(T, parent, child) ==
    [T EXCEPT ![parent].children = Append(@, child), ![child].up = parent]

\* parent.add_child(name=nm): a new node, whose index is Len(T) + 1
add_new_child(T, parent, nm) ==
    add_child(Append(T, TreeNode(nm)), parent, Len(T) + 1)

\* node.detach()
detach(T, node) ==
    IF T[node].up = 0 THEN T
    ELSE [T EXCEPT ![T[node].up].children = remove(@, node), ![node].up = 0]

\* node.get_sisters()
get_sisters(T, node) ==
    IF T[node].up = 0 THEN <<>>
    ELSE SelectSeq(T[T[node].up].children, LAMBDA c : c # node)

RECURSIVE postorder(_, _)
RECURSIVE postorder_all(_, _, _)
\* tree.traverse(strategy='postorder')
postorder(T, node) == postorder_all(T, T[node].children, 1) \o <<node>>
postorder_all(T, kids, k) ==
    IF k > Len(kids) THEN <<>>
    ELSE postorder(T, kids[k]) \o postorder_all(T, kids, k + 1)

\* the names of the nodes listed
names_of(T, listed) == [k \in DOMAIN listed |-> T[listed[k]].name]

\* tree.get_leaf_names()
get_leaf_names(T, node) ==
    names_of(T, SelectSeq(postorder(T, node), LAMBDA x : is_leaf(T, x)))

RECURSIVE newick_copy(_, _, _, _)
RECURSIVE newick_copy_all(_, _, _, _, _)
\* Tree(tree.write(features=["parent_edge_label"], format_root_node=True,
\* format=9)): new nodes in the same child order; leaf names are kept,
\* internal names are not written, the label comes back as a string
newick_copy(T, node, C, parent) ==
    LET id == Len(C) + 1
        me == [up |-> parent, children |-> <<>>,
               name |-> IF is_leaf(T, node) THEN T[node].name ELSE <<>>,
               parent_edge_label |->
                   IF T[node].parent_edge_label = <<>> THEN <<>>
                   ELSE str(T[node].parent_edge_label[1]),
               min_label_below |-> <<>>]
        C1 == IF parent = 0 THEN Append(C, me)
              ELSE [Append(C, me) EXCEPT ![parent].children = Append(@, id)]
    IN  newick_copy_all(T, T[node].children, 1, C1, id)
newick_copy_all(T, kids, k, C, parent) ==
    IF k > Len(kids) THEN C
    ELSE newick_copy_all(T, kids, k + 1, newick_copy(T, kids[k], C, parent), parent)

(***************************************************************************)
(* to_vector                                                               *)
(***************************************************************************)
\* leaf_to_idx[name] = idx for (idx, name) in enumerate(sorted_leaves): a
\* later index overwrites an earlier one
leaf_to_idx(sorted_leaves) ==
    [name \in Range(sorted_leaves) |->
        max([k \in DOMAIN sorted_leaves |->
                IF sorted_leaves[k] = name THEN k - 1 ELSE 0 - 1])]

\* faulty variant: the label of an internal node is minus the smaller of the
\* children's minima
label_node_min_for_max(T, node, l2i) ==
    IF is_leaf(T, node)
    THEN LET idx == l2i[T[node].name]
         IN  [T EXCEPT ![node].parent_edge_label = <<idx>>,
                       ![node].min_label_below = <<idx>>]
    ELSE LET children_mins ==
                 [k \in DOMAIN T[node].children |->
                     T[T[node].children[k]].min_label_below[1]]
         IN  [T EXCEPT ![node].min_label_below = <<min(children_mins)>>,
                       ![node].parent_edge_label = <<0 - min(children_mins)>>]

\* faulty variant: the label of an internal node lacks its minus sign
label_node_unsigned(T, node, l2i) ==
    IF is_leaf(T, node)
    THEN LET idx == l2i[T[node].name]
         IN  [T EXCEPT ![node].parent_edge_label = <<idx>>,
                       ![node].min_label_below = <<idx>>]
    ELSE LET children_mins ==
                 [k \in DOMAIN T[node].children |->
                     T[T[node].children[k]].min_label_below[1]]
         IN  [T EXCEPT ![node].min_label_below = <<min(children_mins)>>,
                       ![node].parent_edge_label = <<max(children_mins)>>]

\* the body of the labelling loop, for one node of the postorder traversal
label_node(T, node, l2i) ==
    IF is_leaf(T, node)
    THEN LET idx == l2i[T[node].name]
         IN  [T EXCEPT ![node].parent_edge_label = <<idx>>,
                       ![node].min_label_below = <<idx>>]
    ELSE LET children_mins ==
                 [k \in DOMAIN T[node].children |->
                     T[T[node].children[k]].min_label_below[1]]
         IN  [T EXCEPT ![node].min_label_below = <<min(children_mins)>>,
                       ![node].parent_edge_label = <<0 - max(children_mins)>>]

RECURSIVE label_nodes(_, _, _, _)
label_nodes(T, order, k, l2i) ==
    IF k > Len(order) THEN T
    ELSE label_nodes(label_node(T, order[k], l2i), order, k + 1, l2i)

\* leaf_dict[idx] = node, for the leaves of the postorder traversal: a later
\* leaf of the same idx overwrites an earlier one
RECURSIVE leaf_dict_of(_, _, _, _)
leaf_dict_of(T, order, k, l2i) ==
    IF k = 0 THEN <<>>
    ELSE IF is_leaf(T, order[k])
         THEN (l2i[T[order[k]].name] :> order[k]) @@ leaf_dict_of(T, order, k - 1, l2i)
         ELSE leaf_dict_of(T, order, k - 1, l2i)

\* faulty variant: the parent of the leaf removed is not detached
remove_leaf_without_detach(S, leaf_dict, idx) ==
    IF S.status # "ok" THEN S
    ELSE IF idx \notin DOMAIN leaf_dict THEN [S EXCEPT !.status = "KeyError"]
    ELSE LET leaf == leaf_dict[idx]
             sisters == get_sisters(S.T, leaf)
         IN  IF sisters = <<>> THEN [S EXCEPT !.status = "IndexError"]
             ELSE LET sister == sisters[1]
                      parent == S.T[leaf].up
                      grandparent == S.T[parent].up
                  IN  IF S.T[sister].parent_edge_label = <<>> \/ grandparent = 0
                      THEN [S EXCEPT !.status = "AttributeError"]
                      ELSE [T |-> add_child(S.T, grandparent, sister),
                            vector |-> Append(S.vector, int(S.T[sister].parent_edge_label)),
                            status |-> "ok"]

\* one pass of the deconstruction loop: S = [T, vector, status] is the
\* working tree below tree_grandparent, the entries appended so far and
\* "ok" or the exception raised
remove_leaf(S, leaf_dict, idx) ==
    IF S.status # "ok" THEN S
    ELSE IF idx \notin DOMAIN leaf_dict THEN [S EXCEPT !.status = "KeyError"]
    ELSE LET leaf == leaf_dict[idx]
             sisters == get_sisters(S.T, leaf)
         IN  IF sisters = <<>> THEN [S EXCEPT !.status = "IndexError"]
             ELSE LET sister == sisters[1]
                      parent == S.T[leaf].up
                      grandparent == S.T[parent].up
                  IN  IF S.T[sister].parent_edge_label = <<>> \/ grandparent = 0
                      THEN [S EXCEPT !.status = "AttributeError"]
                      ELSE [T |-> detach(add_child(S.T, grandparent, sister), parent),
                            vector |-> Append(S.vector, int(S.T[sister].parent_edge_label)),
                            status |-> "ok"]

RECURSIVE deconstruct(_, _, _, _)
\* for i in range(n_leaves - 1): idx = n_leaves - 1 - i
deconstruct(S, leaf_dict, n_leaves, i) ==
    IF i >= n_leaves - 1 THEN S
    ELSE deconstruct(remove_leaf(S, leaf_dict, n_leaves - 1 - i), leaf_dict, n_leaves, i + 1)

\* tree_grandparent.add_child(tree_copy): the new node is the last one, the
\* root of the copy the first
below_grandparent(tree_copy) ==
    add_child(Append(tree_copy, TreeNode(<<>>)), Len(tree_copy) + 1, 1)

\* tree_grandparent: the copy of the labelled tree below a new node
grandparent_tree(T, root) == below_grandparent(newick_copy(T, root, <<>>, 0))

\* the leaf dictionary of tree_grandparent
leaf_dict_in(TG, order, l2i) == leaf_dict_of(TG, order, Len(order), l2i)

\* faulty variant: the vector is returned in the order of the removals
vector_as_appended(S) ==
    [status |-> S.status,
     vector |-> IF S.status = "ok" THEN S.vector ELSE <<>>]

\* vector.reverse(); return vector
reversed_vector(S) ==
    [status |-> S.status,
     vector |-> IF S.status = "ok" THEN reverse(S.vector) ELSE <<>>]

\* the deconstruction of tree_grandparent
deconstructed(TG, l2i, n_leaves) ==
    reversed_vector(
        deconstruct([T |-> TG, vector |-> <<>>, status |-> "ok"],
                    leaf_dict_in(TG, postorder(TG, Len(TG)), l2i), n_leaves, 0))

\* the tree has 3 or more leaves: labelling, copy and deconstruction
to_vector_general(tree, l2i, n_leaves) ==
    deconstructed(
        grandparent_tree(
            label_nodes(tree.nodes, postorder(tree.nodes, tree.root), 1, l2i),
            tree.root),
        l2i, n_leaves)

\* to_vector, once tree.get_leaf_names() is known
to_vector_of(tree, leaf_names) ==
    IF ~is_root(tree.nodes, tree.root) THEN [status |-> "ValueError", vector |-> <<>>]
    ELSE IF Len(leaf_names) = 1 THEN [status |-> "ok", vector |-> <<>>]
    ELSE IF Len(leaf_names) = 2 THEN [status |-> "ok", vector |-> <<0>>]
    ELSE to_vector_general(tree, leaf_to_idx(sorted(leaf_names)), Len(leaf_names))

\* to_vector(tree), tree = [nodes, root]; [status, vector]
to_vector(tree) == to_vector_of(tree, get_leaf_names(tree.nodes, tree.root))

\* the local variables when the deconstruction loop is entered: S = [T,
\* vector, status] as in remove_leaf, leaf_dict, n_leaves and the number i
\* of passes made
at_loop_head(TG, l2i, n_leaves) ==
    [at |-> "loop",
     S |-> [T |-> TG, vector |-> <<>>, status |-> "ok"],
     leaf_dict |-> leaf_dict_in(TG, postorder(TG, Len(TG)), l2i),
     n_leaves |-> n_leaves,
     i |-> 0]

\* the tree has 3 or more leaves: labelling, copy and leaf dictionary
before_loop(tree, l2i, n_leaves) ==
    at_loop_head(
        grandparent_tree(
            label_nodes(tree.nodes, postorder(tree.nodes, tree.root), 1, l2i),
            tree.root),
        l2i, n_leaves)

(***************************************************************************)
(* to_tree                                                                 *)
(***************************************************************************)
RECURSIVE extend_names(_, _, _)
\* while period < n_leaves: one more leading letter
extend_names(nms, period, n_leaves) ==
    IF period >= n_leaves THEN nms
    ELSE extend_names(
             [k \in 1..n_leaves |->
                 <<nms[((k - 1) \div period) + 1][Len(nms[((k - 1) \div period) + 1])]>>
                 \o nms[k]],
             26 * period, n_leaves)

\* the names generated when names is None
default_names(n_leaves) ==
    extend_names([k \in 1..n_leaves |-> <<97 + ((k - 1) % 26)>>], 26, n_leaves)

\* "int-node-" + str(i)
int_node_name(i) == <<105, 110, 116, 45, 110, 111, 100, 101, 45>> \o str(i)

\* one pass of the construction loop: S = [T, label_to_node]
attach_leaf(S, vector, nms, i) ==
    LET idx == vector[i]
        subtree == S.label_to_node[idx]
        \* new_node = subtree.add_sister(name=...)
        new_node == Len(S.T) + 1
        T1 == add_new_child(S.T, S.T[subtree].up, int_node_name(i))
        T2 == [T1 EXCEPT ![new_node].parent_edge_label = <<0 - i>>]
        T3 == add_child(detach(T2, subtree), new_node, subtree)
        child == new_node + 1
        T4 == add_new_child(T3, new_node, nms[i + 1])
        T5 == [T4 EXCEPT ![child].parent_edge_label = <<i>>]
    IN  [T |-> T5,
         label_to_node |-> ((0 - i) :> new_node) @@ (i :> child) @@ S.label_to_node]

RECURSIVE build(_, _, _, _, _)
\* for i in range(1, n_leaves)
build(S, vector, nms, n_leaves, i) ==
    IF i >= n_leaves THEN S
    ELSE build(attach_leaf(S, vector, nms, i), vector, nms, n_leaves, i + 1)

\* final_tree = tree.children[0]; final_tree.up = None
without_grand_root(T) ==
    [status |-> "ok",
     nodes |-> [T EXCEPT ![T[1].children[1]].up = 0],
     root |-> T[1].children[1]]

\* to_tree(vector, names) with names given (strings, which str() leaves as
\* they are); [status, nodes, root]
to_tree(vector, nms) ==
    LET n_leaves == Len(vector) + 1
    IN  IF \E k \in DOMAIN vector : abs(vector[k]) > k - 1
        THEN [status |-> "AssertionError", nodes |-> <<>>, root |-> 0]
        ELSE IF Len(nms) < n_leaves
        THEN [status |-> "ValueError", nodes |-> <<>>, root |-> 0]
        ELSE LET T0 == add_new_child(<<TreeNode(<<>>)>>, 1, nms[1])
                 S0 == [T |-> [T0 EXCEPT ![2].parent_edge_label = <<0>>],
                        label_to_node |-> (0 :> 2)]
             IN  without_grand_root(build(S0, vector, nms, n_leaves, 1).T)

\* to_tree(vector): names=None
to_tree_default(vector) == to_tree(vector, default_names(Len(vector) + 1))

(***************************************************************************)
(* Producers of vectors.                                                   *)
(***************************************************************************)
RECURSIVE proper_vectors(_)
\* the vectors of length len whose i-th entry (from 0) is in -i..i
proper_vectors(len) ==
    IF len = 0 THEN {<<>>}
    ELSE {Append(v, x) : v \in proper_vectors(len - 1), x \in (1 - len)..(len - 1)}

\* get_random_vector(n): what the n - 1 calls of randrange(-i, i + 1) can
\* return
get_random_vector(n) == proper_vectors(n - 1)

(***************************************************************************)
(* Trees handed to to_vector.                                              *)
(***************************************************************************)
\* the nodes of T, renumbered to follow d other nodes
shifted(T, d) ==
    [k \in DOMAIN T |->
        [up |-> IF T[k].up = 0 THEN 0 ELSE T[k].up + d,
         children |-> [m \in DOMAIN T[k].children |-> T[k].children[m] + d],
         name |-> T[k].name,
         parent_edge_label |-> T[k].parent_edge_label,
         min_label_below |-> T[k].min_label_below]]

\* t = Tree(); t.add_child(left_tree); t.add_child(right_tree)
new_root_over(left_tree, right_tree) ==
    LET d == Len(left_tree.nodes)
        t == d + Len(right_tree.nodes) + 1
        T0 == left_tree.nodes \o shifted(right_tree.nodes, d) \o <<TreeNode(<<>>)>>
    IN  [nodes |-> add_child(add_child(T0, t, left_tree.root), t, right_tree.root + d),
         root |-> t]

\* the k-th name of the leaves of a tree argument: a, ab, b, bb, c, ...
leaf_name(k) == IF k % 2 = 1 THEN <<97 + (k \div 2)>> ELSE <<96 + (k \div 2), 98>>

RECURSIVE bifurcating_trees(_)
\* every rooted bifurcating tree whose leaves carry the names S, in every
\* order of the children
bifurcating_trees(S) ==
    IF Cardinality(S) = 1
    THEN {[nodes |-> <<TreeNode(CHOOSE nm \in S : TRUE)>>, root |-> 1]}
    ELSE UNION {{new_root_over(l, r) : l \in bifurcating_trees(A),
                                       r \in bifurcating_trees(S \ A)} :
                A \in (SUBSET S) \ {{}, S}}

\* the tree with its leaves named `twice` given the name `kept` instead
with_shared_name(tree, twice, kept) ==
    [nodes |-> [k \in DOMAIN tree.nodes |->
                   IF tree.nodes[k].name = twice
                   THEN [tree.nodes[k] EXCEPT !.name = kept]
                   ELSE tree.nodes[k]],
     root |-> tree.root]

RECURSIVE leaves_below(_, _)
\* the names of the leaves below a node
leaves_below(T, node) ==
    IF is_leaf(T, node) THEN {T[node].name}
    ELSE UNION {leaves_below(T, T[node].children[k]) : k \in DOMAIN T[node].children}

\* the clades of a tree: the leaf sets of its nodes
clades(tree) ==
    {leaves_below(tree.nodes, node) : node \in Range(postorder(tree.nodes, tree.root))}

(***************************************************************************)
(* Utils.                                                                  *)
(***************************************************************************)
\* sum(a != b for (a, b) in zip(vec1, vec2)): zip stops at the shorter one
hamming_dist(vec1, vec2) ==
    Cardinality({k \in DOMAIN vec1 \cap DOMAIN vec2 : vec1[k] # vec2[k]})

\* chr(97 + i // 26) + chr(97 + i % 26) for i in range(n)
combined_names(n) == [k \in 1..n |-> <<97 + ((k - 1) \div 26), 97 + ((k - 1) % 26)>>]

\* return to_vector(t), t the new root over the two trees
combined_vector(left_tree, right_tree) ==
    IF left_tree.status # "ok" THEN [status |-> left_tree.status, vector |-> <<>>]
    ELSE IF right_tree.status # "ok" THEN [status |-> right_tree.status, vector |-> <<>>]
    ELSE to_vector(new_root_over(left_tree, right_tree))

\* faulty variant: the left tree gets the last names and the right tree the first
combine_with_names_crossed(left_vec, right_vec) ==
    LET n_left == Len(left_vec) + 1
        n_right == Len(right_vec) + 1
        nms == combined_names(n_left + n_right)
    IN  combined_vector(to_tree(left_vec, SubSeq(nms, n_right + 1, n_left + n_right)),
                        to_tree(right_vec, SubSeq(nms, 1, n_right)))

\* combine_tree_vectors(left_vec, right_vec); [status, vector]
combine_tree_vectors(left_vec, right_vec) ==
    LET n_left == Len(left_vec) + 1
        n_right == Len(right_vec) + 1
        nms == combined_names(n_left + n_right)
    IN  combined_vector(to_tree(left_vec, SubSeq(nms, 1, n_left)),
                        to_tree(right_vec, SubSeq(nms, n_left + 1, n_left + n_right)))

\* return (to_vector(left_child), to_vector(right_child))
vector_pair(l, r) ==
    [status |-> IF l.status # "ok" THEN l.status ELSE r.status,
     left |-> l.vector, right |-> r.vector]

\* left_child.up = None; right_child.up = None
children_vectors(T, left_child, right_child) ==
    vector_pair(to_vector([nodes |-> T, root |-> left_child]),
                to_vector([nodes |-> T, root |-> right_child]))

\* faulty variant: children[1] is taken for the left child and children[0] for the
\* right child
split_children_swapped(t) ==
    IF t.status # "ok" THEN [status |-> t.status, left |-> <<>>, right |-> <<>>]
    ELSE IF Len(t.nodes[t.root].children) < 2
    THEN [status |-> "IndexError", left |-> <<>>, right |-> <<>>]
    ELSE LET left_child == t.nodes[t.root].children[2]
             right_child == t.nodes[t.root].children[1]
         IN  children_vectors(
                 [t.nodes EXCEPT ![left_child].up = 0, ![right_child].up = 0],
                 left_child, right_child)

\* the two children of the root of t
split_children(t) ==
    IF t.status # "ok" THEN [status |-> t.status, left |-> <<>>, right |-> <<>>]
    ELSE IF Len(t.nodes[t.root].children) < 2
    THEN [status |-> "IndexError", left |-> <<>>, right |-> <<>>]
    ELSE LET left_child == t.nodes[t.root].children[1]
             right_child == t.nodes[t.root].children[2]
         IN  children_vectors(
                 [t.nodes EXCEPT ![left_child].up = 0, ![right_child].up = 0],
                 left_child, right_child)

\* split_tree_children_vectors(vec); [status, left, right]
split_tree_children_vectors(vec) == split_children(to_tree_default(vec))

(***************************************************************************)
(* get_all_vectors: a generator, resumed once per vector asked for.        *)
(***************************************************************************)
RECURSIVE carry(_, _)
\* for i in range(n - 2, 0, -1), from position i on
carry(vec, i) ==
    IF i <= 0 THEN vec
    ELSE IF vec[i + 1] > i
         THEN carry([vec EXCEPT ![i + 1] = 0 - i, ![i] = @ + 1], i - 1)
         ELSE carry(vec, i - 1)

\* if vec[0] > 0: max_reached = True
check_max(vec) == [status |-> "ok", vec |-> vec, max_reached |-> vec[1] > 0]

\* from the yield to the test of the while loop: [status, vec, max_reached]
increment(n, vec) ==
    IF vec = <<>> THEN [status |-> "IndexError", vec |-> vec, max_reached |-> FALSE]
    ELSE check_max(carry([vec EXCEPT ![Len(vec)] = @ + 1], n - 2))

(***************************************************************************)
(* get_all_treeshape_vectors                                               *)
(***************************************************************************)
\* [f(x, y) for x in xs for y in ys]
product(xs, ys) ==
    [k \in 1..(Len(xs) * Len(ys)) |->
        <<xs[((k - 1) \div Len(ys)) + 1], ys[((k - 1) % Len(ys)) + 1]>>]

RECURSIVE with_replacement(_, _, _)
\* combinations_with_replacement(xs, 2), from the pair (xs[i], xs[j]) on
with_replacement(xs, i, j) ==
    IF i > Len(xs) THEN <<>>
    ELSE IF j > Len(xs) THEN with_replacement(xs, i + 1, i + 1)
    ELSE <<<<xs[i], xs[j]>>>> \o with_replacement(xs, i, j + 1)

RECURSIVE concat(_)
concat(ss) == IF ss = <<>> THEN <<>> ELSE Head(ss) \o concat(Tail(ss))

\* faulty variant: range(1, n // 2 + 1), which takes in the split into equal halves
unequal_splits_and_half(n) == 1..(n \div 2)

\* range(1, (n + 1) // 2): the sizes k of the smaller side, k < n - k
unequal_splits(n) == 1..(((n + 1) \div 2) - 1)

RECURSIVE get_all_treeshape_vectors(_)
\* the vectors get_all_treeshape_vectors(n) yields, in order, as
\* [status, vector] of each combine_tree_vectors
get_all_treeshape_vectors(n) ==
    IF n = 0 THEN <<>>
    ELSE IF n = 1 THEN <<[status |-> "ok", vector |-> <<>>]>>
    ELSE IF n = 2 THEN <<[status |-> "ok", vector |-> <<0>>]>>
    ELSE LET combined(pairs) ==
                 [m \in DOMAIN pairs |->
                     combine_tree_vectors(pairs[m][1].vector, pairs[m][2].vector)]
             unequal == concat([k \in unequal_splits(n) |->
                            combined(product(get_all_treeshape_vectors(k),
                                             get_all_treeshape_vectors(n - k)))])
         IN  IF n % 2 = 0
             THEN unequal \o
                  combined(with_replacement(get_all_treeshape_vectors(n \div 2), 1, 1))
             ELSE unequal

(***************************************************************************)
(* Neighbours.                                                             *)
(***************************************************************************)
\* faulty variant: the entry of start_vec is not skipped
add_neighbor_without_continue(S, i, entry) ==
    LET new_vec == S.start_vec
    IN  [S EXCEPT !.neighbors = Append(@, [new_vec EXCEPT ![i + 1] = entry])]

\* the body of the inner loop: S = [start_vec, neighbors]
add_neighbor(S, i, entry) ==
    IF entry = S.start_vec[i + 1] THEN S
    ELSE LET new_vec == S.start_vec   \* start_vec.copy()
         IN  [S EXCEPT !.neighbors = Append(@, [new_vec EXCEPT ![i + 1] = entry])]

RECURSIVE neighborhood_loop(_, _, _)
\* for i in range(len(start_vec)): for entry in range(-i, i + 1)
neighborhood_loop(S, i, entry) ==
    IF i >= Len(S.start_vec) THEN S
    ELSE IF entry >= i + 1 THEN neighborhood_loop(S, i + 1, 0 - (i + 1))
    ELSE neighborhood_loop(add_neighbor(S, i, entry), i, entry + 1)

\* get_vector_neighborhood(start_vec); [start_vec, neighbors]: the argument
\* as the call leaves it, and the list returned
get_vector_neighborhood(start_vec) ==
    neighborhood_loop([start_vec |-> start_vec, neighbors |-> <<>>], 0, 0)

\* faulty variant: new_val = i - j is not moved off the old value
random_vector_neighbor_unadjusted(start_vec, i, j0) ==
    LET j == IF j0 >= i THEN j0 + 1 ELSE j0
        k == IF i >= j THEN i ELSE j
        new_vec == start_vec
    IN  [start_vec |-> start_vec, new_vec |-> [new_vec EXCEPT ![k + 1] = i - j]]

\* faulty variant: a new_val that is the old value changes its sign, the
\* others stay
random_vector_neighbor_sign_flipped(start_vec, i, j0) ==
    LET j == IF j0 >= i THEN j0 + 1 ELSE j0
        k == IF i >= j THEN i ELSE j
        old_val == start_vec[k + 1]
        new_val == i - j
        adjusted == IF new_val = old_val THEN 0 - new_val ELSE new_val
        new_vec == start_vec
    IN  [start_vec |-> start_vec, new_vec |-> [new_vec EXCEPT ![k + 1] = adjusted]]

\* random_vector_neighbor(start_vec), randrange(0, n) returning i and
\* randrange(0, n - 1) returning j0; [start_vec, new_vec]
random_vector_neighbor(start_vec, i, j0) ==
    LET j == IF j0 >= i THEN j0 + 1 ELSE j0
        k == IF i >= j THEN i ELSE j
        old_val == start_vec[k + 1]
        new_val == i - j
        adjusted == IF new_val > 0
                    THEN (IF new_val <= old_val THEN new_val - 1 ELSE new_val)
                    ELSE (IF new_val >= old_val THEN new_val + 1 ELSE new_val)
        new_vec == start_vec   \* start_vec.copy()
    IN  [start_vec |-> start_vec, new_vec |-> [new_vec EXCEPT ![k + 1] = adjusted]]

(***************************************************************************)
(* The calls.  A caller makes one call at a time, with arguments drawn     *)
(* from the bounded sets, and is back at "idle" before the next.           *)
(***************************************************************************)
Init ==
    /\ pc = "idle"
    /\ arg = <<>>
    /\ frame = <<>>
    /\ ret = <<>>

\* to_vector(tree) of the tree a call returned, or the exception of that call
to_vector_of_returned(tree) ==
    IF tree.status = "ok" THEN to_vector(tree)
    ELSE [status |-> tree.status, vector |-> <<>>]

\* to_tree(vec, names) of the vector a call returned, or the exception of
\* that call
to_tree_of_returned(vec, nms) ==
    IF vec.status = "ok" THEN to_tree(vec.vector, nms)
    ELSE [status |-> vec.status, nodes |-> <<>>, root |-> 0]

\* test_vector_idempotent(n): to_vector(to_tree(vec)) of a random vector
test_vector_idempotent ==
    /\ pc = "idle"
    /\ \E n \in 1..MaxLeaves : \E vec \in get_random_vector(n) :
          /\ pc' = "test_vector_idempotent"
          /\ arg' = [vec |-> vec]
          /\ ret' = to_vector_of_returned(to_tree_default(vec))
    /\ frame' = <<>>

\* test_ete_vector_idempotent(n), for any tree in place of t.populate(n):
\* vec = to_vector(t), then to_tree(vec) under t's sorted leaf names and
\* to_vector of that
test_ete_vector_idempotent ==
    /\ pc = "idle"
    /\ \E n \in 1..MaxTreeLeaves :
       \E t \in bifurcating_trees({leaf_name(k) : k \in 1..n}) :
       \E vec \in {to_vector(t)} :
       \E back \in {to_tree_of_returned(vec, sorted(get_leaf_names(t.nodes, t.root)))} :
          /\ pc' = "test_ete_vector_idempotent"
          /\ arg' = [t |-> t]
          /\ ret' = [vec |-> vec, tree |-> back, again |-> to_vector_of_returned(back)]
    /\ frame' = <<>>

\* the lists of n distinct names, in every order
name_lists(n) ==
    {nms \in [1..n -> {leaf_name(k) : k \in 1..n}] :
        \A a, b \in 1..n : a # b => nms[a] # nms[b]}

\* to_vector(to_tree(vec, names)) with names of the caller
to_vector_of_named_tree ==
    /\ pc = "idle"
    /\ \E n \in 1..MaxTreeLeaves : \E vec \in proper_vectors(n - 1) :
       \E nms \in name_lists(n) :
          /\ pc' = "to_vector_of_named_tree"
          /\ arg' = [vec |-> vec, names |-> nms]
          /\ ret' = to_vector_of_returned(to_tree(vec, nms))
    /\ frame' = <<>>

\* vectors = get_all_vectors(n): nothing of the generator has run yet
get_all_vectors_call ==
    /\ pc = "idle"
    /\ \E n \in 1..MaxLeaves :
          /\ pc' = "get_all_vectors"
          /\ arg' = [n |-> n]
          /\ frame' = [at |-> "start", vec |-> <<>>, max_reached |-> FALSE]
          /\ ret' = [status |-> "ok", yielded |-> <<>>]

\* next(vectors): the generator runs to its next yield, to its end or to
\* an exception
get_all_vectors_next ==
    /\ pc = "get_all_vectors"
    /\ frame.at \in {"start", "yield"}
    /\ \E resumed \in {IF frame.at = "start"
                       THEN [status |-> "ok",
                             vec |-> [k \in 1..(arg.n - 1) |-> 0 - (k - 1)],
                             max_reached |-> FALSE]
                       ELSE increment(arg.n, frame.vec)} :
           IF resumed.status # "ok"
           THEN /\ frame' = [frame EXCEPT !.at = "raised"]
                /\ ret' = [ret EXCEPT !.status = resumed.status]
           ELSE IF resumed.max_reached
           THEN /\ frame' = [at |-> "done", vec |-> resumed.vec, max_reached |-> TRUE]
                /\ ret' = ret
           ELSE /\ frame' = [at |-> "yield", vec |-> resumed.vec, max_reached |-> FALSE]
                /\ ret' = [ret EXCEPT !.yielded = Append(@, resumed.vec)]
    /\ UNCHANGED <<pc, arg>>

\* list(get_all_treeshape_vectors(n))
get_all_treeshape_vectors_call ==
    /\ pc = "idle"
    /\ \E n \in 0..MaxShapeLeaves :
          /\ pc' = "get_all_treeshape_vectors"
          /\ arg' = [n |-> n]
          /\ ret' = get_all_treeshape_vectors(n)
    /\ frame' = <<>>

\* get_vector_neighborhood(start_vec)
get_vector_neighborhood_call ==
    /\ pc = "idle"
    /\ \E len \in 0..(MaxLeaves - 1) : \E vec \in proper_vectors(len) :
          /\ pc' = "get_vector_neighborhood"
          /\ arg' = [start_vec |-> vec]
          /\ ret' = get_vector_neighborhood(vec)
    /\ frame' = <<>>

\* random_vector_neighbor(start_vec), for every pair of draws of randrange
random_vector_neighbor_call ==
    /\ pc = "idle"
    /\ \E len \in 2..(MaxLeaves - 1) : \E vec \in proper_vectors(len) :
       \E i \in 0..(len - 1) : \E j \in 0..(len - 2) :
          /\ pc' = "random_vector_neighbor"
          /\ arg' = [start_vec |-> vec, i |-> i, j |-> j]
          /\ ret' = random_vector_neighbor(vec, i, j)
    /\ frame' = <<>>

\* split_tree_children_vectors(combine_tree_vectors(l, r))
split_of_combined ==
    /\ pc = "idle"
    /\ \E n_left \in 1..(MaxLeaves - 1) : \E n_right \in 1..(MaxLeaves - n_left) :
       \E l \in proper_vectors(n_left - 1) : \E r \in proper_vectors(n_right - 1) :
       \E vec \in {combine_tree_vectors(l, r)} :
          /\ pc' = "split_of_combined"
          /\ arg' = [left |-> l, right |-> r]
          /\ ret' = [combined |-> vec,
                     split |-> IF vec.status = "ok"
                               THEN split_tree_children_vectors(vec.vector)
                               ELSE [status |-> vec.status, left |-> <<>>, right |-> <<>>]]
    /\ frame' = <<>>

\* combine_tree_vectors(*split_tree_children_vectors(vec))
combine_of_split ==
    /\ pc = "idle"
    /\ \E len \in 1..(MaxLeaves - 1) : \E vec \in proper_vectors(len) :
       \E halves \in {split_tree_children_vectors(vec)} :
          /\ pc' = "combine_of_split"
          /\ arg' = [vec |-> vec]
          /\ ret' = [split |-> halves,
                     combined |-> IF halves.status = "ok"
                                  THEN combine_tree_vectors(halves.left, halves.right)
                                  ELSE [status |-> halves.status, vector |-> <<>>]]
    /\ frame' = <<>>

\* hamming_dist(vec1, vec2), the two vectors of any two lengths
hamming_dist_call ==
    /\ pc = "idle"
    /\ \E len1, len2 \in 0..(MaxDistLeaves - 1) :
       \E vec1 \in proper_vectors(len1) : \E vec2 \in proper_vectors(len2) :
          /\ pc' = "hamming_dist"
          /\ arg' = [vec1 |-> vec1, vec2 |-> vec2]
          /\ ret' = [status |-> "ok", value |-> hamming_dist(vec1, vec2)]
    /\ frame' = <<>>

\* to_vector(tree) of a tree in which two leaves have the same name
to_vector_of_shared_name ==
    /\ pc = "idle"
    /\ \E n \in 3..MaxTreeLeaves :
       \E t \in bifurcating_trees({leaf_name(k) : k \in 1..n}) :
       \E a \in 1..(n - 1) : \E b \in (a + 1)..n :
       \E shared \in {with_shared_name(t, leaf_name(b), leaf_name(a))} :
          /\ pc' = "to_vector_of_shared_name"
          /\ arg' = [t |-> shared]
          /\ ret' = to_vector(shared)
    /\ frame' = <<>>

\* the lists of 0 to n names out of n, repeated names included
any_names(n) ==
    UNION {[1..len -> {leaf_name(k) : k \in 1..n}] : len \in 0..n}

\* to_tree(vec, names) with any list of names
to_tree_call ==
    /\ pc = "idle"
    /\ \E n \in 1..MaxNamedLeaves : \E vec \in proper_vectors(n - 1) :
       \E nms \in any_names(n) :
          /\ pc' = "to_tree"
          /\ arg' = [vec |-> vec, names |-> nms]
          /\ ret' = to_tree(vec, nms)
    /\ frame' = <<>>

\* to_vector(tree), run up to its return for a tree on 1 or 2 leaves and
\* up to the head of the deconstruction loop for a larger one
to_vector_call ==
    /\ pc = "idle"
    /\ \E n \in 1..MaxTreeLeaves :
       \E t \in bifurcating_trees({leaf_name(k) : k \in 1..n}) :
       \E leaf_names \in {get_leaf_names(t.nodes, t.root)} :
          /\ pc' = "to_vector"
          /\ arg' = [t |-> t]
          /\ IF ~is_root(t.nodes, t.root) \/ Len(leaf_names) <= 2
             THEN /\ frame' = [at |-> "returned"]
                  /\ ret' = to_vector_of(t, leaf_names)
             ELSE /\ frame' = before_loop(t, leaf_to_idx(sorted(leaf_names)),
                                          Len(leaf_names))
                  /\ ret' = <<>>

\* one pass of the deconstruction loop of to_vector
to_vector_loop ==
    /\ pc = "to_vector"
    /\ frame.at = "loop"
    /\ frame.i < frame.n_leaves - 1
    /\ \E S \in {remove_leaf(frame.S, frame.leaf_dict, frame.n_leaves - 1 - frame.i)} :
          /\ frame' = [frame EXCEPT !.S = S, !.i = @ + 1,
                                    !.at = IF S.status = "ok" THEN "loop" ELSE "raised"]
          /\ ret' = IF S.status = "ok" THEN ret ELSE reversed_vector(S)
    /\ UNCHANGED <<pc, arg>>

\* the deconstruction loop of to_vector is over: vector.reverse(); return
to_vector_return ==
    /\ pc = "to_vector"
    /\ frame.at = "loop"
    /\ frame.i = frame.n_leaves - 1
    /\ frame' = [frame EXCEPT !.at = "returned"]
    /\ ret' = reversed_vector(frame.S)
    /\ UNCHANGED <<pc, arg>>

\* the caller is back between two calls; it may leave a generator it has
\* not exhausted
Return ==
    /\ pc # "idle"
    /\ pc' = "idle"
    /\ arg' = <<>>
    /\ frame' = <<>>
    /\ ret' = <<>>

Next ==
    \/ test_vector_idempotent
    \/ test_ete_vector_idempotent
    \/ to_vector_of_named_tree
    \/ get_all_vectors_call
    \/ get_all_vectors_next
    \/ get_all_treeshape_vectors_call
    \/ get_vector_neighborhood_call
    \/ random_vector_neighbor_call
    \/ split_of_combined
    \/ combine_of_split
    \/ hamming_dist_call
    \/ to_vector_of_shared_name
    \/ to_tree_call
    \/ to_vector_call
    \/ to_vector_loop
    \/ to_vector_return
    \/ Return

Spec == Init /\ [][Next]_vars

(***************************************************************************)
(* The claims.                                                             *)
(***************************************************************************)
\* the vector is proper: entry i (from 0) is in -i..i
is_proper(vec) == \A k \in DOMAIN vec : abs(vec[k]) <= k - 1

\* C1: decoding a proper vector with the generated names and encoding the
\* result gives the vector back
RoundTripA ==
    pc = "test_vector_idempotent" => ret.status = "ok" /\ ret.vector = arg.vec

\* a vector of length 3 or more with a negative and a positive entry came back
WitnessRoundTripA ==
    /\ pc = "test_vector_idempotent"
    /\ Len(arg.vec) >= 3
    /\ \E k \in DOMAIN arg.vec : arg.vec[k] < 0
    /\ \E k \in DOMAIN arg.vec : arg.vec[k] > 0
    /\ ret.status = "ok"
    /\ ret.vector = arg.vec

\* C2: decoding the vector of a tree under the tree's sorted leaf names
\* gives a tree with the clades of the original
RoundTripB ==
    pc = "test_ete_vector_idempotent" =>
        /\ ret.vec.status = "ok"
        /\ ret.tree.status = "ok"
        /\ clades(ret.tree) = clades(arg.t)

\* a tree on 4 leaves whose root has two internal children, with a first
\* leaf that is not the leaf of rank 0, came back with its clades
WitnessRoundTripB ==
    /\ pc = "test_ete_vector_idempotent"
    /\ Len(get_leaf_names(arg.t.nodes, arg.t.root)) = 4
    /\ get_leaf_names(arg.t.nodes, arg.t.root)[1] # leaf_name(1)
    /\ \A k \in 1..2 : ~is_leaf(arg.t.nodes, arg.t.nodes[arg.t.root].children[k])
    /\ ret.tree.status = "ok"
    /\ clades(ret.tree) = clades(arg.t)

\* C3: the vector of a tree on n leaves has length n - 1 and entry i in -i..i
EncodeIsProper ==
    pc = "test_ete_vector_idempotent" =>
        /\ ret.vec.status = "ok"
        /\ Len(ret.vec.vector) = Len(get_leaf_names(arg.t.nodes, arg.t.root)) - 1
        /\ is_proper(ret.vec.vector)

\* a tree on 4 leaves was encoded with the least last entry there is
WitnessEncodeIsProper ==
    /\ pc = "test_ete_vector_idempotent"
    /\ ret.vec.status = "ok"
    /\ Len(ret.vec.vector) = 3
    /\ ret.vec.vector[3] = 0 - 2
    /\ is_proper(ret.vec.vector)

\* the names are listed in increasing string order
is_sorted(nms) == \A k \in 1..(Len(nms) - 1) : StrLess(nms[k], nms[k + 1])

\* no entry of the sequence occurs twice
no_repeats(s) == \A a, b \in DOMAIN s : a # b => s[a] # s[b]

\* C4, as claimed: the round trip gives the vector back for names in any order
NamedRoundTripAnyOrder ==
    pc = "to_vector_of_named_tree" => ret.status = "ok" /\ ret.vector = arg.vec

\* C4, amended: the round trip gives the vector back when the names are
\* listed in increasing string order, or the tree has at most 2 leaves
NamedRoundTripSorted ==
    (pc = "to_vector_of_named_tree" /\ (is_sorted(arg.names) \/ Len(arg.vec) <= 1))
        => ret.status = "ok" /\ ret.vector = arg.vec

\* a vector with a negative entry came back from a tree on 3 or more leaves
\* named in increasing order
WitnessNamedRoundTripSorted ==
    /\ pc = "to_vector_of_named_tree"
    /\ Len(arg.vec) >= 2
    /\ is_sorted(arg.names)
    /\ \E k \in DOMAIN arg.vec : arg.vec[k] < 0
    /\ ret.status = "ok"
    /\ ret.vector = arg.vec

RECURSIVE number_of_vectors(_)
\* the product of 2i + 1 for i = 0..n-2
number_of_vectors(n) == IF n <= 1 THEN 1 ELSE (2 * (n - 2) + 1) * number_of_vectors(n - 1)

\* C5: get_all_vectors(n) never raises, yields proper vectors of length
\* n - 1 only, none twice, and has yielded all of them when it ends
GetAllVectorsEndsNormally ==
    pc = "get_all_vectors" =>
        /\ frame.at # "raised"
        /\ \A k \in DOMAIN ret.yielded :
              Len(ret.yielded[k]) = arg.n - 1 /\ is_proper(ret.yielded[k])
        /\ no_repeats(ret.yielded)
        /\ frame.at = "done" =>
              /\ Len(ret.yielded) = number_of_vectors(arg.n)
              /\ Range(ret.yielded) = proper_vectors(arg.n - 1)

\* a number for the unordered pair of the shapes a and b of two subtrees
pair_shape(a, b) ==
    IF a <= b THEN 1 + ((b * (b + 1)) \div 2) + a ELSE 1 + ((a * (a + 1)) \div 2) + b

RECURSIVE shape(_, _)
\* the shape of the subtree below a node, as a number: 0 for a leaf
shape(T, node) ==
    IF is_leaf(T, node) THEN 0
    ELSE pair_shape(shape(T, T[node].children[1]), shape(T, T[node].children[2]))

RECURSIVE tree_shapes(_)
\* the shapes of the rooted binary trees on n leaves
tree_shapes(n) ==
    IF n = 1 THEN {0}
    ELSE UNION {{pair_shape(a, b) : a \in tree_shapes(k), b \in tree_shapes(n - k)} :
                k \in 1..(n - 1)}

\* the shape of the tree a vector decodes to
shape_of_vector(vec) == shape(to_tree_default(vec).nodes, to_tree_default(vec).root)

\* C6: get_all_treeshape_vectors(n) yields nothing for n = 0 and otherwise
\* one vector for each shape of a rooted binary tree on n leaves: no vector
\* twice, no two trees of the same shape, as many as there are shapes
OneVectorPerTreeShape ==
    pc = "get_all_treeshape_vectors" =>
        /\ \A k \in DOMAIN ret : ret[k].status = "ok" /\ Len(ret[k].vector) = arg.n - 1
        /\ no_repeats([k \in DOMAIN ret |-> ret[k].vector])
        /\ no_repeats([k \in DOMAIN ret |-> shape_of_vector(ret[k].vector)])
        /\ arg.n = 0 => ret = <<>>
        /\ arg.n >= 1 => Len(ret) = Cardinality(tree_shapes(arg.n))
        /\ arg.n \in 1..6 => Len(ret) = <<1, 1, 1, 2, 3, 6>>[arg.n]

\* the six shapes on 6 leaves were yielded
WitnessOneVectorPerTreeShape ==
    /\ pc = "get_all_treeshape_vectors"
    /\ arg.n = 6
    /\ Len(ret) = 6
    /\ Cardinality({shape_of_vector(ret[k].vector) : k \in DOMAIN ret}) = 6

\* C7: get_vector_neighborhood(v) returns (n-1)(n-2) vectors for a vector
\* of length n - 1, pairwise distinct, each proper and at Hamming distance
\* 1 from v, and leaves v as it was
NeighborhoodIsHammingSphere ==
    pc = "get_vector_neighborhood" =>
        /\ Len(ret.neighbors) = Len(arg.start_vec) * (Len(arg.start_vec) - 1)
        /\ no_repeats(ret.neighbors)
        /\ \A k \in DOMAIN ret.neighbors :
              /\ Len(ret.neighbors[k]) = Len(arg.start_vec)
              /\ is_proper(ret.neighbors[k])
              /\ hamming_dist(arg.start_vec, ret.neighbors[k]) = 1
        /\ ret.start_vec = arg.start_vec

\* the 12 neighbours of a vector of length 4 with a nonzero entry
WitnessNeighborhoodIsHammingSphere ==
    /\ pc = "get_vector_neighborhood"
    /\ Len(arg.start_vec) = 4
    /\ arg.start_vec[4] = 3
    /\ Len(ret.neighbors) = 12
    /\ \A k \in DOMAIN ret.neighbors : hamming_dist(arg.start_vec, ret.neighbors[k]) = 1

\* C8: for every pair of draws, random_vector_neighbor(v) returns a proper
\* vector that differs from v at exactly one position, and leaves v as it was
RandomNeighborDiffersOnce ==
    pc = "random_vector_neighbor" =>
        /\ Len(ret.new_vec) = Len(arg.start_vec)
        /\ is_proper(ret.new_vec)
        /\ hamming_dist(arg.start_vec, ret.new_vec) = 1
        /\ ret.start_vec = arg.start_vec

\* draws with i - j equal to the old entry: the new entry was moved off it
WitnessRandomNeighborDiffersOnce ==
    /\ pc = "random_vector_neighbor"
    /\ \E k \in DOMAIN arg.start_vec :
          /\ arg.start_vec[k] \in {arg.i - arg.j, arg.i - (arg.j + 1)}
          /\ arg.start_vec[k] # 0
          /\ ret.new_vec[k] # arg.start_vec[k]
          /\ abs(ret.new_vec[k]) = abs(arg.start_vec[k]) - 1
    /\ hamming_dist(arg.start_vec, ret.new_vec) = 1

\* C9: splitting the combination of l and r gives (l, r) back, in that order
SplitOfCombinedIsIdentity ==
    pc = "split_of_combined" =>
        /\ ret.combined.status = "ok"
        /\ ret.split.status = "ok"
        /\ ret.split.left = arg.left
        /\ ret.split.right = arg.right

\* two different nonempty vectors were combined and came back in their order
WitnessSplitOfCombinedIsIdentity ==
    /\ pc = "split_of_combined"
    /\ arg.left # <<>>
    /\ arg.right # <<>>
    /\ Len(arg.left) # Len(arg.right)
    /\ ret.split.status = "ok"
    /\ ret.split.left = arg.left
    /\ ret.split.right = arg.right

\* C10, as claimed: combining the two halves of a vector gives the vector back
CombineOfSplitIsIdentity ==
    pc = "combine_of_split" =>
        /\ ret.split.status = "ok"
        /\ ret.combined.status = "ok"
        /\ ret.combined.vector = arg.vec

\* the leaves below the first child of the root of the tree of vec are
\* the leaves 0..a-1, for the number a of these leaves
first_child_holds_first_leaves(vec) ==
    LET t == to_tree_default(vec)
        below == leaves_below(t.nodes, t.nodes[t.root].children[1])
        nms == default_names(Len(vec) + 1)
    IN  below = {nms[k] : k \in 1..Cardinality(below)}

\* C10, amended: combining the two halves of a vector v gives a proper
\* vector of the length of v whose tree has the shape of the tree of v; it
\* gives v itself exactly when the first child of the root of the tree of v
\* holds the leaves 0..a-1
CombineOfSplitKeepsShape ==
    pc = "combine_of_split" =>
        /\ ret.split.status = "ok"
        /\ ret.combined.status = "ok"
        /\ Len(ret.combined.vector) = Len(arg.vec)
        /\ is_proper(ret.combined.vector)
        /\ shape_of_vector(ret.combined.vector) = shape_of_vector(arg.vec)
        /\ ret.combined.vector = arg.vec <=> first_child_holds_first_leaves(arg.vec)

\* a vector of length 3 or more did not come back, another vector of its
\* shape did
WitnessCombineOfSplitKeepsShape ==
    /\ pc = "combine_of_split"
    /\ Len(arg.vec) >= 3
    /\ ret.combined.status = "ok"
    /\ ret.combined.vector # arg.vec
    /\ shape_of_vector(ret.combined.vector) = shape_of_vector(arg.vec)

\* C11, as claimed: hamming_dist of two vectors of different lengths raises
\* an exception and returns no number
HammingDistSignalsLengthMismatch ==
    (pc = "hamming_dist" /\ Len(arg.vec1) # Len(arg.vec2)) => ret.status # "ok"

\* C12, as claimed: to_vector of a tree on 3 or more leaves of which two
\* have the same name raises an exception and returns no vector
SharedLeafNameIsSignalled ==
    pc = "to_vector_of_shared_name" => ret.status # "ok"

\* C13, as claimed: to_tree raises an exception and returns no tree when
\* the names hold fewer than len(vector) + 1 distinct values
FewDistinctNamesAreSignalled ==
    (pc = "to_tree" /\ Cardinality(Range(arg.names)) < Len(arg.vec) + 1)
        => ret.status # "ok"

\* the points (i, j) outside the main diagonal of the n x n square
draw_pairs(n) == {d \in (0..(n - 1)) \X (0..(n - 1)) : d[1] # d[2]}

\* the points whose draw makes random_vector_neighbor(start_vec) return
\* new_vec; the point (i, j) is drawn as i and as j, or j - 1 when j > i
draws_giving(start_vec, new_vec) ==
    {d \in draw_pairs(Len(start_vec)) :
        random_vector_neighbor(
            start_vec, d[1], IF d[2] > d[1] THEN d[2] - 1 ELSE d[2]).new_vec = new_vec}

\* C14: for a vector of length 2 or more, what random_vector_neighbor
\* returns is in get_vector_neighborhood and comes from one point only, and
\* every vector of get_vector_neighborhood comes from exactly one point
RandomNeighborIsUniform ==
    /\ pc = "random_vector_neighbor" =>
           /\ ret.new_vec \in Range(get_vector_neighborhood(arg.start_vec).neighbors)
           /\ Cardinality(draws_giving(arg.start_vec, ret.new_vec)) = 1
    /\ (pc = "get_vector_neighborhood" /\ Len(arg.start_vec) >= 2) =>
           \A k \in DOMAIN ret.neighbors :
               Cardinality(draws_giving(arg.start_vec, ret.neighbors[k])) = 1

\* a draw whose value i - j was moved off the old value, for a vector of
\* length 3 or more, gave a vector of the neighbourhood that no other point
\* gives
WitnessRandomNeighborIsUniform ==
    /\ pc = "random_vector_neighbor"
    /\ Len(arg.start_vec) >= 3
    /\ \E k \in DOMAIN arg.start_vec :
           /\ ret.new_vec[k] # arg.start_vec[k]
           /\ ret.new_vec[k] # arg.i - (IF arg.j >= arg.i THEN arg.j + 1 ELSE arg.j)
    /\ ret.new_vec \in Range(get_vector_neighborhood(arg.start_vec).neighbors)
    /\ Cardinality(draws_giving(arg.start_vec, ret.new_vec)) = 1

\* the rank of a leaf name among the leaf names of a tree: the number of
\* names before it in string order
rank_in(tree, nm) ==
    Cardinality({x \in leaves_below(tree.nodes, tree.root) : StrLess(x, nm)})

RECURSIVE least_rank_below(_, _, _)
\* the least rank of the leaves below a node of the working tree T
least_rank_below(tree, T, node) ==
    IF is_leaf(T, node) THEN rank_in(tree, T[node].name)
    ELSE min([k \in DOMAIN T[node].children |->
                 least_rank_below(tree, T, T[node].children[k])])

\* the canonical label of a node of T: the rank of a leaf, and for an
\* internal node minus the larger of its children's least ranks
canonical_label(tree, T, node) ==
    IF is_leaf(T, node) THEN rank_in(tree, T[node].name)
    ELSE 0 - max([k \in DOMAIN T[node].children |->
                     least_rank_below(tree, T, T[node].children[k])])

\* the nodes of the working tree T below the sentinel, which is the last
\* node of T
below_sentinel(T) == postorder_all(T, T[Len(T)].children, 1)

\* T below the sentinel is a bifurcating tree on the leaves of rank 0..m-1
\* of `tree`, with m leaves and m - 1 internal nodes
is_bifurcating_on(tree, T, m) ==
    LET listed == below_sentinel(T)
        leaves == {x \in Range(listed) : is_leaf(T, x)}
    IN  /\ T[Len(T)].up = 0
        /\ Len(T[Len(T)].children) = 1
        /\ no_repeats(listed)
        /\ \A x \in Range(listed) :
               /\ Len(T[x].children) \in {0, 2}
               /\ \A k \in DOMAIN T[x].children : T[T[x].children[k]].up = x
        /\ T[T[Len(T)].children[1]].up = Len(T)
        /\ Cardinality(leaves) = m
        /\ Len(listed) = 2 * m - 1
        /\ {rank_in(tree, T[x].name) : x \in leaves} = 0..(m - 1)

\* every node of T below the sentinel has the label it had at the head of
\* the loop, T0 being the working tree then, and that label is the
\* canonical label of the node in T
labels_are_canonical(tree, T0, T) ==
    \A x \in Range(below_sentinel(T)) :
        /\ T[x].parent_edge_label # <<>>
        /\ T[x].parent_edge_label = T0[x].parent_edge_label
        /\ int(T[x].parent_edge_label) = canonical_label(tree, T, x)

\* the pass that removes the leaf of rank idx finds a sister, whose label is
\* less than idx in absolute value
sister_is_below(T, leaf_dict, idx) ==
    /\ idx \in DOMAIN leaf_dict
    /\ get_sisters(T, leaf_dict[idx]) # <<>>
    /\ T[get_sisters(T, leaf_dict[idx])[1]].parent_edge_label # <<>>
    /\ abs(int(T[get_sisters(T, leaf_dict[idx])[1]].parent_edge_label)) < idx

\* C15: after every pass of the deconstruction loop of to_vector, the pass
\* that removes the leaf of rank idx = n - i being the i-th, the working
\* tree below the sentinel is a bifurcating tree on the leaves of rank
\* 0..idx-1, every node of it keeps the label computed before the loop,
\* which is its canonical label in the reduced tree, the entry appended is
\* less than idx in absolute value, and the next pass finds a sister whose
\* label is less than its idx in absolute value
DeconstructionLoopInvariant ==
    (pc = "to_vector" /\ frame.at \in {"loop", "raised"} /\ frame.i >= 1) =>
        /\ frame.S.status = "ok"
        /\ Len(frame.S.vector) = frame.i
        /\ is_bifurcating_on(arg.t, frame.S.T, frame.n_leaves - frame.i)
        /\ labels_are_canonical(
               arg.t,
               before_loop(arg.t,
                           leaf_to_idx(sorted(get_leaf_names(arg.t.nodes, arg.t.root))),
                           frame.n_leaves).S.T,
               frame.S.T)
        /\ abs(frame.S.vector[frame.i]) < frame.n_leaves - frame.i
        /\ frame.i < frame.n_leaves - 1 =>
               sister_is_below(frame.S.T, frame.leaf_dict,
                               frame.n_leaves - 1 - frame.i)

\* two leaves of a tree on 4 leaves are removed, the second from beside an
\* internal node: the two leaves of rank 0 and 1 and their parent are left
WitnessDeconstructionLoopInvariant ==
    /\ pc = "to_vector"
    /\ frame.at = "loop"
    /\ frame.n_leaves = 4
    /\ frame.i = 2
    /\ frame.S.status = "ok"
    /\ frame.S.vector[2] < 0
    /\ is_bifurcating_on(arg.t, frame.S.T, 2)
    /\ Len(below_sentinel(frame.S.T)) = 3

====
